---- MODULE Spec2Model ----
(***************************************************************************)
(* Authenticated HTTP client of src/src/lib/api-client.ts (class ApiClient):*)
(* bearer-token request interceptor, 401 response interceptor with a       *)
(* single-flight token refresh (isRefreshing + failedQueue), and the       *)
(* cookie-backed token accessors.                                          *)
(*                                                                         *)
(* Execution model: JavaScript event loop.  One action is one event-loop   *)
(* task: a caller's call, or the delivery of one network response together *)
(* with every promise continuation (microtask) it schedules.  A task ends  *)
(* where the code waits for the network (the refresh POST, a dispatched    *)
(* request); an await on a promise that is already settled resumes within  *)
(* the same task.                                                          *)
(***************************************************************************)
EXTENDS Integers, Sequences, FiniteSets

\* ---- bounds of the model ------------------------------------------------
\* requests issued through the client
NumReq == 3
\* 401 responses the servers give in all
Max401 == 3
\* clients constructed side by side
MaxClients == 2

\* ---- values --------------------------------------------------------------
\* JavaScript undefined: an absent cookie, an absent field of the response.
Undefined == 0
\* The string "undefined", what `${undefined}` and cookie.serialize(undefined) give.
UndefinedStr == -1
\* token strings: the one obtained at login, and the one the refresh endpoint
\* issues in answer to its n-th call
LoginToken == 1
Issued(n) == LoginToken + n
Requests == 1..NumReq

LoginUrl == "/api/auth/login"
Urls == {LoginUrl, "/api/data"}
NoHeader == <<>>
ErrStatuses == {401, 500}
\* what the refresh POST can come back with: a 2xx response whose body carries
\* accessToken and refreshToken (each possibly absent), a 2xx response whose
\* body is null, or a rejection (no response, non-2xx status)
Pending == [kind |-> "pending", accessToken |-> Undefined, refreshToken |-> Undefined]
Responses(n) ==
  [kind : {"2xx"}, accessToken : {Issued(n), Undefined}, refreshToken : {Issued(n), Undefined}]
    \cup [kind : {"2xx-null", "rejected"}, accessToken : {Undefined}, refreshToken : {Undefined}]
\* the error handleTokenRefresh throws for them (line 133)
RefreshErr(resp) == IF resp.kind = "2xx-null" THEN "refresh:TypeError" ELSE "refresh:rejected"
RefreshFailures == {"refresh:TypeError", "refresh:rejected"}

\* instance a request is sent through; both share the client's flag and queue
InstanceOf(r) == IF r % 2 = 1 THEN "variantAuth" ELSE "variantB"

VARIABLES
  accessToken,    \* cookie ACCESS_TOKEN_KEY (Undefined when absent)
  refreshToken,   \* cookie REFRESH_TOKEN_KEY (Undefined when absent)
  isRefreshing,   \* ApiClient.isRefreshing
  failedQueue,    \* ApiClient.failedQueue: requests whose continuation waits
  req,            \* per request: promise state, config (_retry, url, Authorization)
  refreshPosts,   \* refresh POSTs under way: [by, sent, n, resp]
  refreshCalls,   \* history: number of POSTs made to apiRefreshUrl
  cycles,         \* history: number of refresh attempts that completed
  late,           \* history: a triggering 401 was handled after an attempt completed
  staggered,      \* history: a request was issued after a 401 had been received
  n401,           \* number of 401 responses received
  built,          \* clients constructed: their props and the keys they derived
  drained,        \* history: the waiters whose continuations ran in the task
                  \* that led to this state, in the order in which they ran
  endpoint        \* the refresh endpoint: whether it keeps track of the refresh
                  \* tokens it receives, and those it has received, in order

vars == <<accessToken, refreshToken, isRefreshing, failedQueue, req,
          refreshPosts, refreshCalls, cycles, late, staggered, n401, built,
          drained, endpoint>>

NewRequest == [st |-> "idle", url |-> LoginUrl, retry |-> FALSE, auth |-> NoHeader,
               sends |-> 0, enq |-> 0, err |-> "none"]

\* ---- construction (lines 45-51) --------------------------------------------
\* props.tokenNamespace is optional: <<>> when not given, <<s>> when given
Namespaces == {<<>>, <<"app">>, <<"putty">>, <<"app_accessToken_x">>}
Envs == {"production", "staging", "dev", "x_accessToken_dev"}
Props == [env : Envs, tokenNamespace : Namespaces]

\* the props of the client whose requests are followed
ThisClient == [env |-> "production", tokenNamespace |-> <<>>]

\* line 46
TokenPrefix(props) ==
  (IF props.tokenNamespace = <<>> THEN "putty" ELSE props.tokenNamespace[1]) \o "_"

\* a suffix that treats production like any other environment
EnvSuffix_Always(env) == "_" \o env

\* line 47
EnvSuffix(env) == IF env = "production" THEN "" ELSE "_" \o env

\* lines 50-51
AccessTokenKey(props) == TokenPrefix(props) \o "accessToken" \o EnvSuffix(props.env)
RefreshTokenKey(props) == TokenPrefix(props) \o "refreshToken" \o EnvSuffix(props.env)

\* the constructed client, as far as its keys go
ClientOf(props) == [props |-> props,
                    ACCESS_TOKEN_KEY |-> AccessTokenKey(props),
                    REFRESH_TOKEN_KEY |-> RefreshTokenKey(props)]

\* ---- pure helpers ---------------------------------------------------------

\* `Bearer ${token}` (lines 155, 182, 193)
Bearer(token) == <<"Bearer", IF token = Undefined THEN UndefinedStr ELSE token>>

\* what cookies.get returns after cookies.set(key, v): a string is stored as
\* it is; undefined is serialized as the string "undefined" where document.cookie
\* exists and reads back as undefined where it does not (server side)
CookieSet(v) == IF v = Undefined THEN {Undefined, UndefinedStr} ELSE {v}

\* request interceptor (lines 152-158): the header the request leaves with
RequestInterceptor(hdr, token) == IF token # Undefined THEN Bearer(token) ELSE hdr

\* a guard that forgets the _retry mark
Triggers_IgnoresRetry(status, retry) == status = 401

\* line 171
Triggers(status, retry) == status = 401 /\ ~retry

\* an exemption that never matches
IsLoginPath_Never(url) == FALSE

\* line 172
IsLoginPath(url) == url = LoginUrl

\* a test of the flag with the wrong sign
RefreshInProgress_Inverted == ~isRefreshing

\* a response interceptor that never takes the queue branch
RefreshInProgress_Ungated == FALSE

\* line 177
RefreshInProgress == isRefreshing

\* a refresh that does not look for the refresh token first
RefreshTokenAvailable_Unchecked == TRUE

\* lines 107-110
RefreshTokenAvailable == refreshToken # Undefined

\* a refresh that never stores the refresh token of the response
StoreRefreshToken_Never(new, old) == old

\* a refresh that stores whatever refreshToken field the response has
StoreRefreshToken_Always(new, old) == new

\* lines 122-124: the refresh token cookie after a successful refresh
StoreRefreshToken(new, old) == IF new # Undefined THEN new ELSE old

\* a refresher that is not marked
MarkRetry_Forgotten == FALSE

\* line 188: originalRequest._retry = true
MarkRetry == TRUE

\* a flag cleared at the end of the try block only
FlagAfterAttempt_NoFinally(threw) == threw

\* line 200: the finally block runs whether or not the attempt threw
FlagAfterAttempt(threw) == FALSE

\* a clearTokens that leaves the access token
clearTokens_RefreshOnly == accessToken' = accessToken /\ refreshToken' = Undefined

\* a clearTokens that leaves the refresh token
clearTokens_AccessOnly == accessToken' = Undefined /\ refreshToken' = refreshToken

\* clearTokens (lines 82-85)
clearTokens == accessToken' = Undefined /\ refreshToken' = Undefined

\* the error the caller gets for a response of that status (line 204)
HttpErr(status) == IF status = 401 THEN "http401" ELSE "http500"

RECURSIVE SeqToSet(_)
SeqToSet(s) == IF s = <<>> THEN {} ELSE {Head(s)} \cup SeqToSet(Tail(s))

\* the request's promise settles: fulfilled ("done") or rejected with err
\* ("failed"); its config (url, headers, _retry) is not used again and only
\* the outcome is kept
Settle(q, st, err) == [NewRequest EXCEPT !.st = st, !.err = err]

\* a replay that sends the request as it was
Replay_Stale(q, hdr, token) == [q EXCEPT !.st = "sent", !.sends = @ + 1]

\* instance(originalRequest): the request goes out again through the request
\* interceptor (lines 183, 195)
Replay(q, hdr, token) == [q EXCEPT !.st = "sent", !.sends = @ + 1,
                                   !.auth = RequestInterceptor(hdr, token)]

RECURSIVE Reverse(_)
Reverse(s) == IF s = <<>> THEN <<>> ELSE Append(Reverse(Tail(s)), Head(s))

\* a loop that takes the waiters from the end of the array
forEach_Backwards(queue) == Reverse(queue)

\* failedQueue.forEach (line 91) visits the waiters in ascending index order,
\* and the continuations of lines 181-185 run in the order in which their
\* promises were settled
forEach(queue) == queue

\* a processQueue that settles the first waiter only
processQueue_HeadOnly(rq, queue, error, token, stored) ==
  [r \in Requests |->
     IF queue # <<>> /\ r = Head(queue)
       THEN IF error # "none"
              THEN Settle(rq[r], "failed", error)
              ELSE Replay(rq[r], Bearer(token), stored)
       ELSE rq[r]]

\* a processQueue without the else branch of line 94: nobody is resolved
processQueue_RejectOnly(rq, queue, error, token, stored) ==
  [r \in Requests |->
     IF r \in SeqToSet(queue) /\ error # "none"
       THEN Settle(rq[r], "failed", error)
       ELSE rq[r]]

\* processQueue (lines 87-99) followed by the continuations it wakes
\* (lines 181-185): with an error every waiter is rejected with it, otherwise
\* every waiter sets its header and is dispatched again
processQueue(rq, queue, error, token, stored) ==
  [r \in Requests |->
     IF r \in SeqToSet(queue)
       THEN IF error # "none"
              THEN Settle(rq[r], "failed", error)
              ELSE Replay(rq[r], Bearer(token), stored)
       ELSE rq[r]]

\* the refresh endpoint receives the body {refreshToken: token} (lines 114-116)
Receive(e, token) == IF e.tracks THEN [e EXCEPT !.received = Append(@, token)] ELSE e

\* ---- initial state --------------------------------------------------------
Init ==
  /\ accessToken \in {Undefined, LoginToken}
  /\ refreshToken \in {Undefined, LoginToken}
  /\ isRefreshing = FALSE
  /\ failedQueue = <<>>
  /\ req = [r \in Requests |-> NewRequest]
  /\ refreshPosts = {}
  /\ refreshCalls = 0
  /\ cycles = 0
  /\ late = FALSE
  /\ staggered = FALSE
  /\ n401 = 0
  /\ built = {ClientOf(ThisClient)}
  /\ drained = <<>>
  /\ endpoint = [tracks |-> FALSE, received |-> <<>>]

\* ---- token accessors called by the application ---------------------------
SetAccessToken(t) ==
  /\ accessToken' = t
  /\ drained' = <<>>
  /\ UNCHANGED <<built, endpoint, refreshToken, isRefreshing,
                 failedQueue, req, refreshPosts, refreshCalls, cycles, late,
                 staggered, n401>>

SetRefreshToken(t) ==
  /\ refreshToken' = t
  /\ drained' = <<>>
  /\ UNCHANGED <<built, endpoint, accessToken, isRefreshing,
                 failedQueue, req, refreshPosts, refreshCalls, cycles, late,
                 staggered, n401>>

ClearTokens ==
  /\ clearTokens
  /\ drained' = <<>>
  /\ UNCHANGED <<built, endpoint, isRefreshing, failedQueue, req,
                 refreshPosts, refreshCalls, cycles, late, staggered, n401>>

\* ---- a caller issues a request through variantAuth / variantB -----------
\* (requests are numbered in the order of their issue)
Issue(r, url) ==
  /\ req[r].st = "idle"
  /\ \A p \in Requests : p < r => req[p].st # "idle"
  /\ req' = [req EXCEPT ![r] = [@ EXCEPT !.st = "sent", !.url = url, !.sends = 1,
                                         !.auth = RequestInterceptor(NoHeader, accessToken)]]
  /\ staggered' = (staggered \/ n401 > 0)
  /\ drained' = <<>>
  /\ UNCHANGED <<built, endpoint, accessToken, refreshToken,
                 isRefreshing, failedQueue, refreshPosts, refreshCalls, cycles,
                 late, n401>>

\* ---- response interceptor, success path (line 164) ------------------------
ResponseOk(r) ==
  /\ req[r].st = "sent"
  /\ req' = [req EXCEPT ![r] = Settle(@, "done", "none")]
  /\ drained' = <<>>
  /\ UNCHANGED <<built, endpoint, accessToken, refreshToken,
                 isRefreshing, failedQueue, refreshPosts, refreshCalls, cycles,
                 late, staggered, n401>>

\* ---- response interceptor, failure path (lines 165-205) -------------------

\* the error handler of the response interceptor runs for request r (line 165)
Receives(r, status) ==
  /\ req[r].st = "sent"
  /\ status = 401 => n401 < Max401
  /\ n401' = IF status = 401 THEN n401 + 1 ELSE n401

\* line 204 and lines 172-174: the error goes to the caller
Reject(r, status) ==
  /\ Receives(r, status)
  /\ ~Triggers(status, req[r].retry) \/ IsLoginPath(req[r].url)
  /\ req' = [req EXCEPT ![r] = Settle(@, "failed", HttpErr(status))]
  /\ drained' = <<>>
  /\ UNCHANGED <<built, endpoint, accessToken, refreshToken,
                 isRefreshing, failedQueue, refreshPosts, refreshCalls, cycles,
                 late, staggered>>

\* lines 177-186: wait for the refresh in flight
Enqueue(r, status) ==
  /\ Receives(r, status)
  /\ Triggers(status, req[r].retry)
  /\ ~IsLoginPath(req[r].url)
  /\ RefreshInProgress
  /\ failedQueue' = Append(failedQueue, r)
  /\ req' = [req EXCEPT ![r] = [@ EXCEPT !.st = "queued", !.enq = @ + 1]]
  /\ drained' = <<>>
  /\ UNCHANGED <<built, endpoint, accessToken, refreshToken,
                 isRefreshing, refreshPosts, refreshCalls, cycles, late, staggered>>

\* lines 188-192 with handleTokenRefresh up to its await (lines 105-116):
\* a refresh token is stored and the POST goes out
StartRefresh(r, status) ==
  /\ Receives(r, status)
  /\ Triggers(status, req[r].retry)
  /\ ~IsLoginPath(req[r].url)
  /\ ~RefreshInProgress
  /\ RefreshTokenAvailable
  /\ isRefreshing' = TRUE
  /\ req' = [req EXCEPT ![r] = [@ EXCEPT !.st = "refreshing", !.retry = MarkRetry]]
  /\ refreshPosts' = refreshPosts \cup
       {[by |-> r, sent |-> refreshToken, n |-> refreshCalls + 1, resp |-> Pending]}
  /\ refreshCalls' = refreshCalls + 1
  /\ endpoint' = Receive(endpoint, refreshToken)
  /\ late' = (late \/ cycles > 0)
  /\ drained' = <<>>
  /\ UNCHANGED <<built, accessToken, refreshToken, failedQueue, cycles,
                 staggered>>

\* lines 188-201 when handleTokenRefresh throws at line 109: its catch clears
\* the tokens (128), the interceptor's catch drains the queue with the error
\* (197) and rejects (198), finally clears the flag (200)
RefreshWithoutToken(r, status) ==
  /\ Receives(r, status)
  /\ Triggers(status, req[r].retry)
  /\ ~IsLoginPath(req[r].url)
  /\ ~RefreshInProgress
  /\ ~RefreshTokenAvailable
  /\ clearTokens
  /\ req' = [processQueue(req, failedQueue, "NoRefreshToken", Undefined, Undefined)
               EXCEPT ![r] = Settle(@, "failed", "NoRefreshToken")]
  /\ failedQueue' = <<>>
  /\ drained' = forEach(failedQueue)
  /\ isRefreshing' = FlagAfterAttempt(TRUE)
  /\ cycles' = cycles + 1
  /\ late' = (late \/ cycles > 0)
  /\ UNCHANGED <<built, endpoint, refreshPosts, refreshCalls, staggered>>

\* ---- the refresh POST returns ---------------------------------------------

\* the refresh endpoint answers the POST p
Answer(p, resp) ==
  /\ p \in refreshPosts
  /\ p.resp.kind = "pending"
  /\ refreshPosts' = (refreshPosts \ {p}) \cup {[p EXCEPT !.resp = resp]}
  /\ drained' = <<>>
  /\ UNCHANGED <<built, endpoint, accessToken, refreshToken,
                 isRefreshing, failedQueue, req, refreshCalls, cycles, late,
                 staggered, n401>>

\* lines 118-126, then 193-195 and 200: tokens stored, waiters and the
\* refresher dispatched again, flag cleared
RefreshSucceeds(p) ==
  /\ p \in refreshPosts
  /\ p.resp.kind = "2xx"
  /\ \E stored \in CookieSet(p.resp.accessToken) :
       /\ accessToken' = stored
       /\ req' = [processQueue(req, failedQueue, "none", p.resp.accessToken, stored)
                    EXCEPT ![p.by] = Replay(@, Bearer(p.resp.accessToken), stored)]
  /\ refreshToken' = StoreRefreshToken(p.resp.refreshToken, refreshToken)
  /\ failedQueue' = <<>>
  /\ drained' = forEach(failedQueue)
  /\ isRefreshing' = FlagAfterAttempt(FALSE)
  /\ refreshPosts' = refreshPosts \ {p}
  /\ cycles' = cycles + 1
  /\ UNCHANGED <<built, endpoint, refreshCalls, late, staggered, n401>>

\* lines 127-134, then 196-200: the POST rejected (no response, non-2xx
\* status) or response.data is null and line 118 threw: tokens cleared,
\* waiters and the refresher rejected with the error, flag cleared
RefreshFails(p) ==
  /\ p \in refreshPosts
  /\ p.resp.kind \in {"rejected", "2xx-null"}
  /\ clearTokens
  /\ req' = [processQueue(req, failedQueue, RefreshErr(p.resp), Undefined, Undefined)
               EXCEPT ![p.by] = Settle(@, "failed", RefreshErr(p.resp))]
  /\ failedQueue' = <<>>
  /\ drained' = forEach(failedQueue)
  /\ isRefreshing' = FlagAfterAttempt(TRUE)
  /\ refreshPosts' = refreshPosts \ {p}
  /\ cycles' = cycles + 1
  /\ UNCHANGED <<built, endpoint, refreshCalls, late, staggered, n401>>

\* requests, responses and refreshes
Next ==
  \/ \E r \in Requests, u \in Urls : Issue(r, u)
  \/ \E r \in Requests : ResponseOk(r)
  \/ \E r \in Requests, s \in ErrStatuses : Reject(r, s)
  \/ \E r \in Requests, s \in ErrStatuses : Enqueue(r, s)
  \/ \E r \in Requests, s \in ErrStatuses : StartRefresh(r, s)
  \/ \E r \in Requests, s \in ErrStatuses : RefreshWithoutToken(r, s)
  \/ \E p \in refreshPosts : \E resp \in Responses(p.n) : Answer(p, resp)
  \/ \E p \in refreshPosts : RefreshSucceeds(p)
  \/ \E p \in refreshPosts : RefreshFails(p)

Spec == Init /\ [][Next]_vars

\* the same for one request fewer, with the application calling the token
\* accessors at any time
NextWithAccessors ==
  \/ Next /\ req'[NumReq].st = "idle"
  \/ SetAccessToken(LoginToken)
  \/ SetRefreshToken(LoginToken)
  \/ ClearTokens

SpecWithAccessors == Init /\ [][NextWithAccessors]_vars

\* ---- a refresh endpoint that rotates the refresh token --------------------------
\* every success response of the refresh endpoint carries a new refresh token
Rotates == \A p \in refreshPosts : p.resp.kind = "2xx" => p.resp.refreshToken # Undefined

NextRotating == Next /\ Rotates'

\* the client in front of an endpoint that keeps track of the tokens
InitRotating ==
  /\ endpoint = [tracks |-> TRUE, received |-> <<>>]
  /\ accessToken \in {Undefined, LoginToken}
  /\ refreshToken \in {Undefined, LoginToken}
  /\ isRefreshing = FALSE
  /\ failedQueue = <<>>
  /\ req = [r \in Requests |-> NewRequest]
  /\ refreshPosts = {}
  /\ refreshCalls = 0
  /\ cycles = 0
  /\ late = FALSE
  /\ staggered = FALSE
  /\ n401 = 0
  /\ built = {ClientOf(ThisClient)}
  /\ drained = <<>>

SpecRotating == InitRotating /\ [][NextRotating]_vars

\* ---- clients constructed side by side ----------------------------------------
KeyInit ==
  /\ built = {}
  /\ drained = <<>>
  /\ endpoint = [tracks |-> FALSE, received |-> <<>>]
  /\ accessToken = Undefined
  /\ refreshToken = Undefined
  /\ isRefreshing = FALSE
  /\ failedQueue = <<>>
  /\ req = [r \in Requests |-> NewRequest]
  /\ refreshPosts = {}
  /\ refreshCalls = 0
  /\ cycles = 0
  /\ late = FALSE
  /\ staggered = FALSE
  /\ n401 = 0

\* new ApiClient(props) (lines 45-59)
Construct(props) ==
  /\ Cardinality(built) < MaxClients
  /\ built' = built \cup {ClientOf(props)}
  /\ drained' = <<>>
  /\ UNCHANGED <<endpoint, accessToken, refreshToken, isRefreshing,
                 failedQueue, req, refreshPosts, refreshCalls, cycles, late,
                 staggered, n401>>

KeyNext == \E props \in Props : Construct(props)

KeySpec == KeyInit /\ [][KeyNext]_vars

\* ---- progress ----------------------------------------------------------------
\* the transport call of request r returns: a response or an error is
\* delivered to the response interceptor (lines 164-205)
Responds(r) ==
  \/ ResponseOk(r)
  \/ \E s \in ErrStatuses :
       Reject(r, s) \/ Enqueue(r, s) \/ StartRefresh(r, s) \/ RefreshWithoutToken(r, s)

\* the refresh call returns (line 114), and the event loop runs the
\* continuation of handleTokenRefresh and of the interceptor
RefreshReturns == \E p \in refreshPosts : \E resp \in Responses(p.n) : Answer(p, resp)
RefreshResumes == \E p \in refreshPosts : RefreshSucceeds(p) \/ RefreshFails(p)

\* every transport call and every refresh call eventually returns, and the
\* event loop runs every task that is ready
Fairness ==
  /\ \A r \in Requests : WF_vars(Responds(r))
  /\ WF_vars(RefreshReturns)
  /\ WF_vars(RefreshResumes)

NextFair == Next /\ req'[NumReq].st = "idle"

SpecFair == Init /\ [][NextFair]_vars /\ Fairness

\* ---- properties -------------------------------------------------------------

\* this step is the response interceptor handling a 401 for request r
Handles401(r) == n401' = n401 + 1 /\ req[r].st = "sent" /\ req'[r].st # "sent"

\* ... a 401 that reaches the isRefreshing test of line 177
Observes(r) == Handles401(r) /\ ~req[r].retry /\ ~IsLoginPath(req[r].url)

Refreshers == {r \in Requests : req[r].st = "refreshing"}

\* C1: at most one refresh attempt is in flight per client, over both
\* instances: a 401 handler that sees isRefreshing false raises it and is the
\* only refresher; one that sees it true appends its continuation to the
\* queue and makes no call to the refresh endpoint.
C1_SingleFlight ==
  /\ [](/\ Cardinality(refreshPosts) <= 1
        /\ Cardinality(Refreshers) <= 1
        /\ (refreshPosts # {} \/ Refreshers # {}) => isRefreshing)
  /\ [][\A r \in Requests : Observes(r) =>
          IF isRefreshing
            THEN /\ failedQueue' = Append(failedQueue, r)
                 /\ refreshCalls' = refreshCalls
                 /\ refreshPosts' = refreshPosts
                 /\ isRefreshing'
            ELSE /\ failedQueue' = <<>>
                 /\ refreshToken # Undefined =>
                       /\ isRefreshing'
                       /\ req'[r].retry
                       /\ Refreshers' = {r}
                       /\ refreshPosts' = {[by |-> r, sent |-> refreshToken, n |-> refreshCalls + 1, resp |-> Pending]}
                       /\ refreshCalls' = refreshCalls + 1]_vars

\* a request of one instance waits behind the refresh started by a request
\* of the other instance
C1_Witness ==
  /\ isRefreshing
  /\ failedQueue # <<>>
  /\ \E p \in refreshPosts : InstanceOf(p.by) # InstanceOf(Head(failedQueue))

\* ---- the scenario of N concurrent 401s --------------------------------------
IssuedReqs == {r \in Requests : req[r].st # "idle"}

\* r has received a 401 that entered the refresh protocol, and no response
\* after it
Got401(r) ==
  \/ req[r].st \in {"queued", "refreshing"} /\ req[r].sends = 1
  \/ req[r].st = "sent" /\ req[r].sends = 2
  \/ req[r].st = "failed" /\ req[r].err \in RefreshFailures \cup {"NoRefreshToken"}

\* every request was issued before the first response came, and every one has
\* received one response, a 401 that entered the refresh protocol
AllFailedOnce ==
  /\ IssuedReqs # {}
  /\ ~staggered
  /\ n401 = Cardinality(IssuedReqs)
  /\ \A r \in IssuedReqs : Got401(r)

\* one call to the refresh endpoint, and the N-1 other requests went through
\* the queue and share the fate of the refresher
OneRefreshForAll ==
  /\ refreshCalls = 1
  /\ \/ /\ Cardinality(Refreshers) = 1
        /\ \A r \in IssuedReqs \ Refreshers : req[r].st = "queued" /\ req[r].enq = 1
        /\ SeqToSet(failedQueue) = IssuedReqs \ Refreshers
        /\ Len(failedQueue) = Cardinality(IssuedReqs) - 1
     \/ /\ \A r \in IssuedReqs : req[r].st = "sent" /\ req[r].sends = 2
        /\ Cardinality({r \in IssuedReqs : req[r].enq = 1 /\ ~req[r].retry})
             = Cardinality(IssuedReqs) - 1
     \/ \E e \in RefreshFailures :
          \A r \in IssuedReqs : req[r].st = "failed" /\ req[r].err = e

\* this step completes the refresh POST p (its response has been handled)
Completes(p) == p \in refreshPosts /\ p.resp.kind # "pending" /\ p \notin refreshPosts'

\* the requests whose fate the POST p decides
Cohort(p) == {p.by} \cup SeqToSet(failedQueue)

\* C2 as stated: N concurrent 401s make one refresh call in total under every
\* interleaving with the refresh response, and the N-1 others are queued and
\* settled with the refresher.
C2_Original == AllFailedOnce => OneRefreshForAll

\* C2 amended: N concurrent 401s, all handled before the response to the
\* refresh is handled and with a refresh token in storage when the first is
\* handled, make one refresh call; the N-1 others are queued; when the refresh
\* completes all N are dispatched again if it succeeded and all N are rejected
\* with its error if it failed.
C2_OneRefreshForConcurrent401s ==
  /\ []((AllFailedOnce /\ ~late /\ \A r \in IssuedReqs : req[r].err # "NoRefreshToken")
          => OneRefreshForAll)
  /\ [][\A p \in refreshPosts : Completes(p) =>
          \A r \in Cohort(p) :
            IF p.resp.kind = "2xx"
              THEN req'[r].st = "sent" /\ req'[r].sends = req[r].sends + 1
              ELSE req'[r].st = "failed" /\ req'[r].err = RefreshErr(p.resp)]_vars

\* three concurrent requests got 401, one refreshed, two waited, and all three
\* have been dispatched again
C2_Witness ==
  /\ AllFailedOnce /\ ~late
  /\ Cardinality(IssuedReqs) = 3
  /\ refreshCalls = 1
  /\ \A r \in IssuedReqs : req[r].st = "sent" /\ req[r].sends = 2

\* C3 as stated: a single triggering 401 handled while no refresh is in flight
\* makes exactly one call to the refresh endpoint, whatever the storage holds.
C3_Original ==
  [][\A r \in Requests : (Observes(r) /\ ~isRefreshing) =>
       refreshCalls' = refreshCalls + 1]_vars

\* C3 amended: a single triggering 401 handled while no refresh is in flight
\* starts exactly one refresh attempt: with a refresh token in storage it makes
\* exactly one call to the refresh endpoint, carrying that token; with none it
\* makes no call and the request is rejected at once.
C3_OneRefreshCall ==
  [][\A r \in Requests : (Observes(r) /\ ~isRefreshing) =>
       /\ cycles' + Cardinality(refreshPosts') = cycles + Cardinality(refreshPosts) + 1
       /\ IF refreshToken # Undefined
            THEN /\ refreshCalls' = refreshCalls + 1
                 /\ refreshPosts' = refreshPosts \cup
                      {[by |-> r, sent |-> refreshToken, n |-> refreshCalls + 1,
                        resp |-> Pending]}
                 /\ req'[r].st = "refreshing"
            ELSE /\ refreshCalls' = refreshCalls
                 /\ refreshPosts' = refreshPosts
                 /\ req'[r].st = "failed" /\ req'[r].err = "NoRefreshToken"]_vars

\* the only request issued got 401 with no refresh token stored: it is
\* rejected and the refresh endpoint was never called
C3_Witness ==
  /\ Cardinality(IssuedReqs) = 1
  /\ \E r \in IssuedReqs : req[r].st = "failed" /\ req[r].err = "NoRefreshToken"
  /\ refreshCalls = 0 /\ cycles = 1

\* C4: when a refresh succeeds with new access token T, the refresher's
\* request and every request queued behind that refresh are dispatched again,
\* each with Authorization header 'Bearer T'.
C4_ReplayWithNewToken ==
  [][\A p \in refreshPosts :
       (Completes(p) /\ p.resp.kind = "2xx" /\ p.resp.accessToken # Undefined) =>
         \A r \in Cohort(p) :
           /\ req'[r].st = "sent"
           /\ req'[r].sends = req[r].sends + 1
           /\ req'[r].auth = <<"Bearer", p.resp.accessToken>>]_vars

\* the refresher and a request that waited behind it are both out again with
\* the token the refresh endpoint issued
C4_Witness ==
  /\ ~isRefreshing /\ cycles = 1 /\ refreshCalls = 1
  /\ \E r1, r2 \in Requests :
       /\ req[r1].retry /\ req[r1].st = "sent" /\ req[r1].sends = 2
       /\ req[r2].enq = 1 /\ req[r2].st = "sent" /\ req[r2].sends = 2
       /\ req[r1].auth = <<"Bearer", Issued(1)>>
       /\ req[r2].auth = <<"Bearer", Issued(1)>>

\* C5: after a successful refresh the stored access token is the one the
\* response returned; the stored refresh token is the returned one when the
\* response had one, and otherwise the value it had before the refresh.
C5_TokensStored ==
  [][\A p \in refreshPosts :
       (Completes(p) /\ p.resp.kind = "2xx" /\ p.resp.accessToken # Undefined) =>
         /\ accessToken' = p.resp.accessToken
         /\ refreshToken' = IF p.resp.refreshToken # Undefined
                              THEN p.resp.refreshToken ELSE refreshToken]_vars

\* the response carried an access token and no refresh token: the new access
\* token is stored next to the refresh token of before
C5_Witness ==
  /\ cycles = 1 /\ refreshCalls = 1 /\ refreshPosts = {}
  /\ accessToken = Issued(1)
  /\ refreshToken = LoginToken

\* this step is a 401 handler starting a refresh with no refresh token stored
FailsWithoutToken(r) == Observes(r) /\ ~isRefreshing /\ refreshToken = Undefined

\* C6: when a refresh attempt fails, both tokens are removed from storage and
\* the refresher's request and every request queued behind that refresh are
\* rejected with the reason of that failure; none of them is dispatched again.
C6_RefreshFailure ==
  [][/\ \A p \in refreshPosts :
          (Completes(p) /\ p.resp.kind # "2xx") =>
            /\ accessToken' = Undefined /\ refreshToken' = Undefined
            /\ \A r \in Cohort(p) :
                 /\ req'[r].st = "failed"
                 /\ req'[r].err = (IF p.resp.kind = "rejected" THEN "refresh:rejected"
                                                              ELSE "refresh:TypeError")
     /\ \A r \in Requests : FailsWithoutToken(r) =>
          /\ accessToken' = Undefined /\ refreshToken' = Undefined
          /\ \A q \in {r} \cup SeqToSet(failedQueue) :
               /\ req'[q].st = "failed"
               /\ req'[q].err = "NoRefreshToken"]_vars

\* the refresh POST was rejected: the refresher and the request that waited
\* behind it (two 401s, one refresh call) are rejected with that error and
\* storage is empty
C6_Witness ==
  /\ accessToken = Undefined /\ refreshToken = Undefined
  /\ cycles = 1 /\ refreshCalls = 1 /\ n401 = 2
  /\ \E r1, r2 \in Requests :
       /\ r1 # r2
       /\ req[r1].st = "failed" /\ req[r1].err = "refresh:rejected"
       /\ req[r2].st = "failed" /\ req[r2].err = "refresh:rejected"

\* C7: a refresh response with success status and no access token is a
\* refresh failure: both tokens are cleared, the refresher and all queued
\* requests are rejected, nothing is dispatched again.
C7_MissingAccessTokenFails ==
  [][\A p \in refreshPosts :
       (Completes(p) /\ p.resp.kind \in {"2xx", "2xx-null"}
          /\ p.resp.accessToken = Undefined) =>
         /\ accessToken' = Undefined /\ refreshToken' = Undefined
         /\ \A r \in Cohort(p) :
              req'[r].st = "failed"]_vars

\* C8: a request that queued behind a refresh is rejected if and only if that
\* refresh failed, and once it has been queued it never starts a refresh
\* itself and never enters the queue again.
C8_QueuedNeverRetried ==
  [][/\ \A p \in refreshPosts : Completes(p) =>
          \A r \in SeqToSet(failedQueue) :
            (req'[r].st = "failed") <=> (p.resp.kind # "2xx")
     /\ \A r \in Requests : req[r].enq >= 1 =>
          /\ req'[r].enq <= req[r].enq
          /\ req'[r].retry => req[r].retry
          /\ req'[r].st # "refreshing"]_vars

\* C9: every request is dispatched at most twice: once originally and at most
\* once more by the refresh protocol.
C9_AtMostOneReplay == \A r \in Requests : req[r].sends <= 2

\* C10: a 401 on the url '/api/auth/login' is rejected at once with the
\* original error in every state, also during a refresh: no refresh call, no
\* enqueueing, and flag, queue and stored tokens stay as they are.
C10_LoginExempt ==
  [][\A r \in Requests : (Handles401(r) /\ req[r].url = "/api/auth/login") =>
       /\ req'[r].st = "failed"
       /\ req'[r].err = "http401"
       /\ UNCHANGED <<isRefreshing, failedQueue, accessToken, refreshToken,
                      refreshPosts, refreshCalls, cycles>>]_vars

\* request 1 started the refresh that is in flight; request 2 was issued after
\* that and has been rejected with the 401 it got (it is not a retry, so it
\* was on the login path), and nothing waits in the queue
C10_Witness ==
  /\ isRefreshing /\ cycles = 0 /\ refreshCalls = 1 /\ n401 = 2
  /\ IssuedReqs = {1, 2} /\ staggered
  /\ req[1].st = "refreshing"
  /\ req[2].st = "failed" /\ req[2].err = "http401"
  /\ failedQueue = <<>>

\* ---- errors outside the trigger condition -----------------------------------

\* this step is the response interceptor handling, for request r, an error
\* response that is not a 401 or a 401 for a request marked as a retry
NonTrigger(r) ==
  /\ req[r].st = "sent"
  /\ req'[r].st \notin {"sent", "done"}
  /\ n401' = n401 \/ req[r].retry

\* C11: an error response outside the trigger condition (a status other than
\* 401, or a 401 on a request marked as a retry) is rejected to the caller
\* with the error it came with: no refresh call, nothing enqueued, and flag,
\* queue, stored tokens and every other request stay as they are.
C11_NonTriggerPropagates ==
  [][\A r \in Requests : NonTrigger(r) =>
       /\ req'[r].st = "failed"
       /\ req'[r].err = (IF n401' = n401 THEN "http500" ELSE "http401")
       /\ \A q \in Requests \ {r} : req'[q] = req[q]
       /\ UNCHANGED <<isRefreshing, failedQueue, accessToken, refreshToken,
                      refreshPosts, refreshCalls, cycles>>]_vars

\* the only request issued got 401, refreshed, was dispatched again marked as
\* a retry, got 401 again and is rejected with that 401; no second refresh
C11_Witness ==
  /\ Cardinality(IssuedReqs) = 1
  /\ n401 = 2 /\ cycles = 1 /\ refreshCalls = 1
  /\ ~isRefreshing /\ refreshPosts = {}
  /\ \E r \in IssuedReqs : req[r].st = "failed" /\ req[r].err = "http401"

\* ---- the Authorization header of a dispatch ----------------------------------

\* this step dispatches request r (first dispatch or replay)
Dispatches(r) == req'[r].sends = req[r].sends + 1

\* C12: every dispatch of a request, first or replay, leaves with the header
\* 'Bearer t' when the access token t is in storage at that moment, and with
\* no Authorization header when no access token is in storage.
C12_HeaderMatchesStorage ==
  [][\A r \in Requests : Dispatches(r) =>
       req'[r].auth = (IF accessToken' # Undefined THEN <<"Bearer", accessToken'>>
                                                   ELSE NoHeader)]_vars

\* ---- every request settles -----------------------------------------------------
Settled(r) == req[r].st \in {"done", "failed"}

NamespaceOf(c) == IF c.props.tokenNamespace = <<>> THEN "putty" ELSE c.props.tokenNamespace[1]

KeysOf(c) == {c.ACCESS_TOKEN_KEY, c.REFRESH_TOKEN_KEY}

\* the keys are '<namespace>_accessToken' + suffix and '<namespace>_refreshToken'
\* + suffix, the suffix empty for production and '_<env>' otherwise; the same
\* configuration gives the same keys
KeysAsDocumented ==
  /\ \A c \in built :
       /\ c.props.env = "production" =>
            /\ c.ACCESS_TOKEN_KEY = NamespaceOf(c) \o "_accessToken"
            /\ c.REFRESH_TOKEN_KEY = NamespaceOf(c) \o "_refreshToken"
       /\ c.props.env # "production" =>
            /\ c.ACCESS_TOKEN_KEY = NamespaceOf(c) \o "_accessToken_" \o c.props.env
            /\ c.REFRESH_TOKEN_KEY = NamespaceOf(c) \o "_refreshToken_" \o c.props.env
       /\ (c.props.env = "staging" /\ c.props.tokenNamespace = <<"app">>) =>
            /\ c.ACCESS_TOKEN_KEY = "app_accessToken_staging"
            /\ c.REFRESH_TOKEN_KEY = "app_refreshToken_staging"
  /\ \A c1, c2 \in built : c1.props = c2.props => KeysOf(c1) = KeysOf(c2)

\* C14 as stated: the keys are derived as documented, and two configurations
\* with different environments never derive a common key.
C14_Original ==
  /\ KeysAsDocumented
  /\ \A c1, c2 \in built :
       c1.props.env # c2.props.env => KeysOf(c1) \cap KeysOf(c2) = {}

\* C14 amended: the keys are derived as documented, and two configurations
\* with the same namespace and different environments never derive a common
\* key.
C14_KeyDerivation ==
  /\ KeysAsDocumented
  /\ \A c1, c2 \in built :
       (NamespaceOf(c1) = NamespaceOf(c2) /\ c1.props.env # c2.props.env)
         => KeysOf(c1) \cap KeysOf(c2) = {}

\* the clients of namespace 'app' for staging and for production exist side
\* by side
C14_Witness ==
  /\ ClientOf([env |-> "staging", tokenNamespace |-> <<"app">>]) \in built
  /\ ClientOf([env |-> "production", tokenNamespace |-> <<"app">>]) \in built

\* ---- a refresh started with no refresh token ------------------------------------

\* C15: a refresh started while no refresh token is stored fails at once
\* without a call to the refresh endpoint and is handled as a failed refresh
\* call is: both tokens are cleared (an access token still stored included),
\* the queue is rejected with the failure and left empty, the refresher's
\* request is rejected, and the in-flight flag is cleared.
C15_NoRefreshToken ==
  [][\A r \in Requests : FailsWithoutToken(r) =>
       /\ refreshCalls' = refreshCalls /\ refreshPosts' = refreshPosts
       /\ accessToken' = Undefined /\ refreshToken' = Undefined
       /\ req'[r].st = "failed" /\ req'[r].err = "NoRefreshToken"
       /\ \A q \in SeqToSet(failedQueue) :
            req'[q].st = "failed" /\ req'[q].err = "NoRefreshToken"
       /\ failedQueue' = <<>>
       /\ ~isRefreshing'
       /\ cycles' = cycles + 1]_vars

\* request 2 left with the access token that was stored; request 1 got 401
\* with no refresh token stored and is rejected without a refresh call, and
\* the access token is gone
C15_Witness ==
  /\ req[1].st = "failed" /\ req[1].err = "NoRefreshToken"
  /\ req[2].st = "sent" /\ req[2].auth = <<"Bearer", LoginToken>>
  /\ accessToken = Undefined /\ refreshToken = Undefined
  /\ refreshCalls = 0 /\ cycles = 1 /\ ~isRefreshing

\* ---- the queue and the flag ------------------------------------------------------
\* this step starts a refresh attempt; this step completes one
StartsCycle == (~isRefreshing /\ isRefreshing') \/ \E r \in Requests : FailsWithoutToken(r)
CompletesCycle == cycles' = cycles + 1

\* C16: flag false and queue empty at construction; the queue is non-empty
\* only while the flag is true; a continuation is added only while a refresh
\* is in flight; the queue changes otherwise only by being emptied, whole, at
\* the completion of that refresh, in the step that clears the flag; and it
\* is empty whenever a refresh cycle starts.
C16_QueueOnlyWhileRefreshing ==
  /\ (~isRefreshing /\ failedQueue = <<>>)
  /\ [](failedQueue # <<>> => isRefreshing)
  /\ [][/\ failedQueue' # failedQueue =>
            \/ /\ isRefreshing /\ isRefreshing' /\ ~CompletesCycle
               /\ \E r \in Requests : failedQueue' = Append(failedQueue, r)
            \/ /\ CompletesCycle /\ isRefreshing
               /\ failedQueue' = <<>> /\ ~isRefreshing'
        /\ CompletesCycle => (failedQueue' = <<>> /\ ~isRefreshing')
        /\ StartsCycle => (failedQueue = <<>> /\ failedQueue' = <<>>)]_vars

\* the request that waited in the queue of the first refresh cycle has
\* started the second one, and the queue is empty
C16_Witness ==
  /\ cycles = 1 /\ refreshCalls = 2 /\ isRefreshing
  /\ failedQueue = <<>>
  /\ \E r \in Requests : req[r].enq = 1 /\ req[r].st = "refreshing"

\* C17: after every refresh attempt, whether it succeeded, the refresh call
\* failed, or it threw for want of a refresh token, the flag is false again:
\* the flag is true only while an attempt is under way, the step completing
\* an attempt clears it, and the client never stays in the refreshing state.
C17_FlagClearedAfterAttempt ==
  /\ [](isRefreshing <=> refreshPosts # {})
  /\ [][CompletesCycle => ~isRefreshing']_vars
  /\ isRefreshing ~> ~isRefreshing

\* a refresh call failed, a later 401 started a second attempt that threw
\* for want of a refresh token, and the flag is false
C17_Witness ==
  /\ cycles = 2 /\ refreshCalls = 1 /\ ~isRefreshing
  /\ \E r1, r2 \in Requests :
       /\ req[r1].st = "failed" /\ req[r1].err \in RefreshFailures
       /\ req[r2].st = "failed" /\ req[r2].err = "NoRefreshToken"

\* ---- order of settlement ----------------------------------------------------------

\* C18: requests queued behind one refresh are settled in the order of their
\* arrival: a 401 that finds a refresh in flight goes to the end of the queue,
\* the completion of the refresh resolves or rejects the waiters from the
\* front of the queue to its end, and a queued request is not resolved,
\* rejected or dispatched again in any step but that completion.
C18_FifoSettlement ==
  [][/\ \A r \in Requests : (Observes(r) /\ isRefreshing) =>
            failedQueue' = Append(failedQueue, r)
     /\ CompletesCycle =>
            /\ Len(drained') = Len(failedQueue)
            /\ \A i, j \in 1..Len(failedQueue) :
                 (drained'[i] = failedQueue[j]) => i = j
     /\ \A r \in Requests : (req[r].st = "queued" /\ req'[r] # req[r]) =>
            /\ CompletesCycle
            /\ r \in SeqToSet(failedQueue)
            /\ r \in SeqToSet(drained')]_vars

\* request 3 arrived in the queue before request 2; the refresh succeeded and
\* both were dispatched again, request 3 first
C18_Witness ==
  /\ drained = <<3, 2>>
  /\ cycles = 1 /\ refreshCalls = 1
  /\ req[3].st = "sent" /\ req[3].sends = 2
  /\ req[2].st = "sent" /\ req[2].sends = 2

\* ---- use of the refresh token ------------------------------------------------------
RECURSIVE NoRepeats(_)
NoRepeats(s) == s = <<>> \/ (Head(s) \notin SeqToSet(Tail(s)) /\ NoRepeats(Tail(s)))

\* the refresh tokens the endpoint has received
sentTokens == endpoint.received

\* C19: a refresh cycle sends the refresh token that is stored when it starts
\* to the refresh endpoint at most once, in the step that starts it; and with
\* a refresh endpoint whose every success response rotates the refresh token,
\* no refresh token value is sent in more than one refresh call.
C19_RefreshTokenSentOnce ==
  /\ [](/\ NoRepeats(sentTokens)
        /\ Len(sentTokens) = refreshCalls
        /\ Len(sentTokens) <= cycles + Cardinality(refreshPosts))
  /\ [][/\ sentTokens' # sentTokens =>
            /\ StartsCycle
            /\ refreshToken # Undefined
            /\ sentTokens' = Append(sentTokens, refreshToken)
        /\ StartsCycle => Len(sentTokens') <= Len(sentTokens) + 1]_vars

\* three refresh cycles have run, each started by a 401 handled after the
\* cycle before it had completed; each sent the token the one before stored
C19_Witness ==
  /\ Len(sentTokens) = 3
  /\ sentTokens[1] = LoginToken
  /\ sentTokens[2] = Issued(1)
  /\ sentTokens[3] = Issued(2)

\* ---- refreshers ------------------------------------------------------------------
\* refresh attempts started so far
Attempts == cycles + Cardinality(refreshPosts)

\* this step handles a response for request r and starts a refresh attempt
BecomesRefresher(r) ==
  /\ req[r].st = "sent" /\ req'[r].st # "sent"
  /\ cycles' + Cardinality(refreshPosts') = Attempts + 1

\* C20: a request becomes the refresher at most once: it is not marked as a
\* retry when it starts a refresh, it is marked from then on until it
\* settles, and the refresh attempts never outnumber the requests issued.
C20_RefresherAtMostOnce ==
  /\ [](Attempts <= Cardinality(IssuedReqs))
  /\ [][\A r \in Requests :
          /\ BecomesRefresher(r) =>
               /\ ~req[r].retry
               /\ Settled(r)' \/ (req'[r].st = "refreshing" /\ req'[r].retry)
          /\ (req[r].retry /\ ~Settled(r)') => req'[r].retry]_vars

\* two requests have each started one refresh and been dispatched again:
\* two attempts, two requests
C20_Witness ==
  /\ IssuedReqs = {1, 2}
  /\ cycles = 2 /\ refreshCalls = 2
  /\ req[1].st = "sent" /\ req[1].retry /\ req[1].sends = 2
  /\ req[2].st = "sent" /\ req[2].retry /\ req[2].sends = 2
====
